---- MODULE Spec2Model ----
(***************************************************************************)
(* Model of app2.py, a Streamlit application: a login screen backed by an  *)
(* identity provider, and a main screen that reads and writes the tables   *)
(* profiles, avaliacoes and treinos for a target user.                     *)
(*                                                                         *)
(* Every user interaction triggers one execution of the script from top    *)
(* to bottom (and a second one when the script calls st.rerun()); an       *)
(* action of this model is one such interaction with all the runs it       *)
(* causes.  The model follows one browser session, in which any identity   *)
(* may log in after the previous one logged out.                           *)
(*                                                                         *)
(* Numbers are fixed point, in hundredths (8230 is 82.30).  An optional    *)
(* value is a sequence of length 0 (None / NULL / NaN) or 1.               *)
(***************************************************************************)
EXTENDS Integers, Sequences, FiniteSets, Bags, TLC

VARIABLES
    profiles,     \* table profiles: set of rows [user_id, role, nome]
    avaliacoes,   \* table avaliacoes: a bag of rows
    treinos,      \* table treinos: a bag of rows
    auth,         \* st.session_state.auth of each browser session
    selectbox,    \* the widget "Visualizar dados de:" of each session: value and options
    ev,           \* the last interaction: who, what, the data operations it ran, the screen
    d_last,       \* delta unit: the row `last` (df_av.iloc[0])
    d_prev,       \* delta unit: the row `prev` (df_av.iloc[1]) or None
    d_cards       \* delta unit: the three metric cards computed from them

vars == <<profiles, avaliacoes, treinos, auth, selectbox, ev, d_last, d_prev, d_cards>>
appVars == <<profiles, avaliacoes, treinos, auth, selectbox, ev>>
deltaVars == <<d_last, d_prev, d_cards>>

\* ------------------------------------------------------------------ bounds

\* Rows the two forms insert in total over a behaviour.
MaxRows == 2

None == << >>
Some(x) == <<x>>
IsNone(o) == Len(o) = 0

Sessions == {"a"}
Identities == {"t1", "s1", "s2"}
TreinoDates == {1}

\* ------------------------------------------------------- identity provider

EmailOf == [u \in Identities |->
              CASE u = "t1" -> "t1@app" [] u = "s1" -> "s1@app" [] OTHER -> "s2@app"]
TokenOf == [u \in Identities |->
              CASE u = "t1" -> "tok-t1" [] u = "s1" -> "tok-s1" [] OTHER -> "tok-s2"]
Emails == {EmailOf[u] : u \in Identities}
Passwords == {"secret", "wrong"}
AccountOf(email) == CHOOSE u \in Identities : EmailOf[u] = email

\* What can happen to the POST of sb_login.
AuthOutcomes == {"ok", "rejected", "transport", "timeout"}

\* The provider accepts a pair only if the password is the account's.
Response(password, outcome) ==
    IF outcome = "ok" /\ password # "secret" THEN "rejected" ELSE outcome

\* Variant without raise_for_status and without the except branches: a body
\* is returned whatever the request did.
sb_login_unchecked(email, password, outcome) ==
    Some([access_token |-> TokenOf[AccountOf(email)],
          user |-> [id |-> AccountOf(email)]])

\* sb_login: the parsed body on success, None after any failure (every except
\* branch shows an error and returns None).
sb_login(email, password, outcome) ==
    IF Response(password, outcome) = "ok"
    THEN Some([access_token |-> TokenOf[AccountOf(email)],
               user |-> [id |-> AccountOf(email)]])
    ELSE None

DefaultProfile(user_id) == [role |-> "student", nome |-> "Aluno", user_id |-> user_id]

\* Variant whose request lacks the user_id=eq. filter: the first row of the table.
get_user_profile_unfiltered(user_id, P, reqOk) ==
    IF reqOk /\ P # {} THEN CHOOSE r \in P : TRUE ELSE DefaultProfile(user_id)

\* get_user_profile: the first row returned for user_id, the default profile
\* when no row comes back, and the default profile too when the request or
\* its decoding raises (bare except).
get_user_profile(user_id, P, reqOk) ==
    LET data == {r \in P : r.user_id = user_id}
    IN  IF reqOk /\ data # {}
        THEN CHOOSE r \in data : TRUE
        ELSE DefaultProfile(user_id)

\* The dict stored in st.session_state.auth by a successful login.
AuthRecord(data, email, profile) ==
    [token   |-> data.access_token,
     user_id |-> data.user.id,
     email   |-> email,
     role    |-> profile.role,
     nome    |-> profile.nome]

\* `not st.session_state.auth`: the login screen is shown and the script stops.
LoginGate(a) == IsNone(a)

\* Variant that takes every logged-in user for a teacher.
IsTeacher_any(user) == TRUE

IsTeacher(user) == user.role = "teacher"

\* ------------------------------------------------------------------ tables

ProfT  == [user_id |-> "t1", role |-> "teacher", nome |-> "Prof"]
ProfS1 == [user_id |-> "s1", role |-> "student", nome |-> "Ana"]
ProfS2a == [user_id |-> "s2", role |-> "student", nome |-> "Ana"]
ProfS2b == [user_id |-> "s2", role |-> "student", nome |-> "Bia"]

\* The profiles table is maintained outside the application (Supabase panel).
\* Three provisionings: s2 shares the display name of s1, s2 has a name of its
\* own, s2 has no profile row.
ProfileTables == { {ProfT, ProfS1, ProfS2a}, {ProfT, ProfS1, ProfS2b}, {ProfT, ProfS1} }

\* A row of avaliacoes written by the form: st.number_input never returns None.
AvalRow(uid, dt, p, a, g, m) ==
    [user_id |-> uid, data |-> dt, peso |-> Some(p), altura |-> Some(a),
     percentual_gordura |-> Some(g), percentual_massa_magra |-> Some(m)]

\* A row of treinos written by the form.
TreinoRow(uid, dt, grp, exc, ser, rep, kg, obs) ==
    [user_id |-> uid, data |-> dt, grupo_muscular |-> grp, exercicio |-> exc,
     series |-> ser, repeticoes |-> rep, carga_kg |-> kg, observacoes |-> obs]

\* What the assessment form is filled with: (data, peso, altura, % gordura,
\* % massa magra).  Two assessments of the same day and one of the day before.
AvalInputs == { <<2, 8230, 175, 2000, 4012>>, <<2, 8400, 175, 1850, 4016>>,
                <<1, 8400, 175, 1850, 4016>> }

\* Values the workout form is filled with.
TreinoInputs == { <<"Peito", "Supino", 3, 10, 4000, "">> }

\* A row that reached avaliacoes from outside the application, with NULL columns.
NullRow ==
    [user_id |-> "s1", data |-> 1, peso |-> None, altura |-> None,
     percentual_gordura |-> Some(2200), percentual_massa_magra |-> None]

\* ------------------------------------------------------------- SQL queries

Range(f) == {f[i] : i \in DOMAIN f}

Count(seq, r) == Cardinality({i \in DOMAIN seq : seq[i] = r})

\* WHERE user_id = :uid
RowsOf(table, uid) ==
    [r \in {x \in BagToSet(table) : x.user_id = uid} |-> table[r]]

\* The result sets that hold exactly the rows of a bag, in any order.
Listings(rows) ==
    {l \in [1..BagCardinality(rows) -> BagToSet(rows)] :
        \A r \in BagToSet(rows) : Count(l, r) = rows[r]}

IsDateDesc(seq) == \A i \in 1..Len(seq) - 1 : seq[i].data >= seq[i + 1].data

\* Variant with ORDER BY data ASC.
QueryAvaliacoes_asc(table, uid) ==
    {l \in Listings(RowsOf(table, uid)) :
        \A i \in 1..Len(l) - 1 : l[i].data <= l[i + 1].data}

\* SELECT * FROM avaliacoes WHERE user_id = :uid ORDER BY data DESC.
\* The database may return rows of equal date in any order: every listing
\* that ORDER BY allows is a possible result.
QueryAvaliacoes(table, uid) ==
    {l \in Listings(RowsOf(table, uid)) : IsDateDesc(l)}

\* SELECT * FROM profiles WHERE role = 'student', without ORDER BY: the rows
\* in any order.
QueryStudents(P) == Listings(SetToBag({r \in P : r.role = "student"}))

\* {row["nome"]: row["user_id"] for row in alunos_df}: a later row replaces an
\* earlier one of the same nome.
aluno_opts(alunos_df) ==
    LET names == {alunos_df[i].nome : i \in DOMAIN alunos_df}
        lastOf(n) == CHOOSE i \in DOMAIN alunos_df :
                        /\ alunos_df[i].nome = n
                        /\ \A j \in DOMAIN alunos_df : alunos_df[j].nome = n => j <= i
    IN  [n \in names |-> alunos_df[lastOf(n)].user_id]

\* ------------------------------------------------------------------ deltas

Abs(x) == IF x < 0 THEN -x ELSE x

\* f"{x:.1f}" of a value x in hundredths: the sign of x (kept even when the
\* digits round to zero, "-0.0") and the rounded magnitude in tenths.  A
\* float is formatted from its exact binary value, so a decimal tie (x.x5) is
\* decided by the binary expansion of the operands; the value sets of this
\* model contain no two values whose difference is a tie, and ties are
\* resolved to even here.
FormatTenths(x) ==
    LET q == Abs(x) \div 10
        r == Abs(x) % 10
        t == IF r < 5 THEN q
             ELSE IF r > 5 THEN q + 1
             ELSE IF q % 2 = 0 THEN q ELSE q + 1
    IN  [neg |-> x < 0, tenths |-> t]

\* The number a formatted delta denotes, in tenths.
ValueOf(str) == IF str.neg THEN -str.tenths ELSE str.tenths

\* Variant that tests the previous value for truth: 0.0 counts as missing.
safe_delta_falsy(curr, prev_val) ==
    IF IsNone(prev_val) \/ prev_val[1] = 0
    THEN None ELSE Some(FormatTenths(curr - prev_val[1]))

\* safe_delta: None without a previous value, the formatted difference otherwise.
safe_delta(curr, prev_val) ==
    IF IsNone(prev_val) THEN None ELSE Some(FormatTenths(curr - prev_val[1]))

\* float(last[col]) if pd.notna(last[col]) else 0.0
CurrentOf(last, col) == IF IsNone(last[col]) THEN 0 ELSE last[col][1]

\* float(prev[col]) if prev is not None and pd.notna(prev[col]) else None
PreviousOf(prev, col) ==
    IF IsNone(prev) THEN None
    ELSE IF IsNone(prev[1][col]) THEN None ELSE Some(prev[1][col][1])

Metric(last, prev, col) ==
    [value |-> CurrentOf(last, col),
     delta |-> safe_delta(CurrentOf(last, col), PreviousOf(prev, col))]

\* The three st.metric cards k1, k2, k3.
Cards(last, prev) ==
    [peso |-> Metric(last, prev, "peso"),
     gordura |-> Metric(last, prev, "percentual_gordura"),
     massa_magra |-> Metric(last, prev, "percentual_massa_magra")]

NoCards == [peso |-> [value |-> 0, delta |-> None],
            gordura |-> [value |-> 0, delta |-> None],
            massa_magra |-> [value |-> 0, delta |-> None]]

\* Variant that takes the last row of the listing as the previous one.
PrevOf_oldest(df_av) == IF Len(df_av) > 0 THEN Some(df_av[Len(df_av)]) ELSE None

\* df_av.iloc[1] if len(df_av) > 1 else None
PrevOf(df_av) == IF Len(df_av) > 1 THEN Some(df_av[2]) ELSE None

\* --------------------------------------------------------- one script run

Self == "(Eu mesmo)"

\* A data operation a script run issues: which statement, for which :uid,
\* under which logged-in user.
Op(op, uid, user) == [op |-> op, uid |-> uid, caller |-> user.user_id, role |-> user.role]

\* The student selection (expander "Selecionar Aluno").  target_user_id
\* starts as the user's own id; only a teacher reaches the query and the
\* selectbox.  selIn is the value the selectbox widget holds; a selectbox that
\* is not rendered, or whose options no longer contain its value, is back at
\* its first option.
SelectionOutcomes(user, selIn, P) ==
    LET own == [sel |-> Self, opts |-> None,
                target_user_id |-> user.user_id, target_user_name |-> user.nome]
        listed == {Op("listStudents", "", user)}
        chosen(df) ==
            LET o == aluno_opts(df)
                sel_aluno == IF selIn \in DOMAIN o THEN selIn ELSE Self
            IN  IF Len(df) = 0 THEN own
                ELSE IF sel_aluno # Self
                THEN [sel |-> sel_aluno, opts |-> Some(o),
                      target_user_id |-> o[sel_aluno], target_user_name |-> sel_aluno]
                ELSE [own EXCEPT !.opts = Some(o)]
    IN  IF IsTeacher(user)
        THEN {[pick |-> own, ops |-> listed]}
             \cup {[pick |-> chosen(df), ops |-> listed] : df \in QueryStudents(P)}
        ELSE {[pick |-> own, ops |-> {}]}

\* Tab "Dash": the assessments of the target, newest first; the cards compare
\* the first row with the second.
DashOutcomes(table, uid) ==
    {[dash |-> "error", df_av |-> << >>, cards |-> NoCards]}
    \cup {IF Len(df_av) > 0
          THEN [dash |-> "metrics", df_av |-> df_av,
                cards |-> Cards(df_av[1], PrevOf(df_av))]
          ELSE [dash |-> "empty", df_av |-> df_av, cards |-> NoCards]
          : df_av \in QueryAvaliacoes(table, uid)}

\* The operations a run has issued when tab "Dash" is done, whatever the
\* dashboard query returned.
DashOps(so, user) == so.ops \cup {Op("getAssessments", so.pick.target_user_id, user)}

\* The script from the selection so to the end of tab "Dash".
TopOf(so, user, table) ==
    {[screen |-> "main",
      sel |-> so.pick.sel, opts |-> so.pick.opts,
      target_user_id |-> so.pick.target_user_id,
      target_user_name |-> so.pick.target_user_name,
      dash |-> d.dash, df_av |-> d.df_av, cards |-> d.cards,
      ops |-> DashOps(so, user)]
     : d \in DashOutcomes(table, so.pick.target_user_id)}

\* The script from the header to the end of tab "Dash".
Top(user, selIn, P, table) ==
    UNION {TopOf(so, user, table) : so \in SelectionOutcomes(user, selIn, P)}

\* The widget state a run leaves behind.
WidgetOf(top) == [sel |-> top.sel, opts |-> top.opts]

NoWidget == [sel |-> Self, opts |-> None]

\* What a run of the main screen shows.
ScreenOf(top) ==
    [screen |-> top.screen,
     target_user_id |-> top.target_user_id, target_user_name |-> top.target_user_name,
     dash |-> top.dash, df_av |-> top.df_av, cards |-> top.cards]

\* The login screen: nothing of the main screen is rendered.
LoginScreen ==
    [screen |-> "login", target_user_id |-> "", target_user_name |-> "",
     dash |-> "none", df_av |-> << >>, cards |-> NoCards]

\* Variant of a logout that forgets the assignment.
ClearAuth_keep(a) == a

\* st.session_state.auth = None
ClearAuth(a) == None

\* The run that handled the interaction: `target` is its target_user_id,
\* `result` how its request ended, `ops` the data operations of the
\* interaction, `screen` what is shown when the interaction is over.
Event(s, kind, result, target, ops, screen) ==
    [s |-> s, kind |-> kind, result |-> result, reqOk |-> TRUE, target |-> target,
     row |-> None, ops |-> ops, screen |-> screen]

\* A login: `result` is the answer to the token request, `reqOk` whether the
\* profile request went through.
LoginEvent(s, result, reqOk, target, ops, screen) ==
    [Event(s, "login", result, target, ops, screen) EXCEPT !.reqOk = reqOk]

\* A form whose INSERT went through: `row` is the row it wrote.
SavedEvent(s, kind, row, target, ops, screen) ==
    [Event(s, kind, "ok", target, ops, screen) EXCEPT !.row = Some(row)]

\* Variant whose statement replaces the content of the table.
InsertRow_replace(table, row) == SetToBag({row})

\* execute_statement with an INSERT: one row more.
InsertRow(table, row) == table (+) SetToBag({row})

\* ----------------------------------------------------------------- actions

NoEvent == Event("a", "none", "ok", "", {}, LoginScreen)

Init ==
    /\ profiles \in ProfileTables
    /\ avaliacoes = EmptyBag
    /\ treinos = EmptyBag
    /\ auth = [s \in Sessions |-> None]
    /\ selectbox = [s \in Sessions |-> NoWidget]
    /\ ev = NoEvent
    /\ d_last = NullRow
    /\ d_prev = None
    /\ d_cards = None

\* The login form is submitted.  Only a successful sb_login reaches the
\* assignment of st.session_state.auth, which is followed by st.rerun(): the
\* main screen is rendered with a fresh selectbox.
Login(s) ==
    /\ LoginGate(auth[s])
    /\ \E email \in Emails, senha \in Passwords, outcome \in AuthOutcomes, reqOk \in BOOLEAN :
         LET data == sb_login(email, senha, outcome)
         IN  IF IsNone(data)
             THEN /\ ev' = LoginEvent(s, Response(senha, outcome), TRUE, "", {}, LoginScreen)
                  /\ UNCHANGED <<auth, selectbox>>
             ELSE LET profile == get_user_profile(data[1].user.id, profiles, reqOk)
                      user == AuthRecord(data[1], email, profile)
                  IN  \E top \in Top(user, Self, profiles, avaliacoes) :
                        /\ auth' = [auth EXCEPT ![s] = Some(user)]
                        /\ selectbox' = [selectbox EXCEPT ![s] = WidgetOf(top)]
                        /\ ev' = LoginEvent(s, Response(senha, outcome), reqOk,
                                            top.target_user_id,
                                       top.ops \cup {Op("getWorkouts", top.target_user_id, user)},
                                       ScreenOf(top))
    /\ UNCHANGED <<profiles, avaliacoes, treinos, deltaVars>>

\* The teacher picks another entry of the selectbox "Visualizar dados de:".
SelectAluno(s) ==
    /\ ~LoginGate(auth[s])
    /\ ~IsNone(selectbox[s].opts)
    /\ LET user == auth[s][1]
       IN  \E sel_aluno \in ({Self} \cup DOMAIN selectbox[s].opts[1]) \ {selectbox[s].sel} :
           \E top \in Top(user, sel_aluno, profiles, avaliacoes) :
             /\ selectbox' = [selectbox EXCEPT ![s] = WidgetOf(top)]
             /\ ev' = Event(s, "select", "ok", top.target_user_id,
                            top.ops \cup {Op("getWorkouts", top.target_user_id, user)},
                            ScreenOf(top))
    /\ UNCHANGED <<profiles, avaliacoes, treinos, auth, deltaVars>>

\* "Salvar Treino": the insert for the run's target_user_id; on success
\* st.rerun() renders the screen again, on failure the error is shown and the
\* run goes on to the workout listing.
SubmitTreino(s) ==
    /\ ~LoginGate(auth[s])
    /\ BagCardinality(avaliacoes) + BagCardinality(treinos) < MaxRows
    /\ LET user == auth[s][1]
       IN  \E d_treino \in TreinoDates, f \in TreinoInputs, dbOk \in BOOLEAN :
           \E so \in SelectionOutcomes(user, selectbox[s].sel, profiles) :
             LET target_user_id == so.pick.target_user_id
                 row == TreinoRow(target_user_id, d_treino,
                                  f[1], f[2], f[3], f[4], f[5], f[6])
                 ran == DashOps(so, user) \cup {Op("insertWorkout", target_user_id, user)}
             IN  IF dbOk
                 THEN \E again \in Top(user, so.pick.sel, profiles, avaliacoes) :
                        /\ treinos' = InsertRow(treinos, row)
                        /\ selectbox' = [selectbox EXCEPT ![s] = WidgetOf(again)]
                        /\ ev' = SavedEvent(s, "form_treino", row, target_user_id,
                                            ran \cup again.ops
                                            \cup {Op("getWorkouts", again.target_user_id, user)},
                                            ScreenOf(again))
                 ELSE \E top \in TopOf(so, user, avaliacoes) :
                        /\ treinos' = treinos
                        /\ selectbox' = [selectbox EXCEPT ![s] = WidgetOf(top)]
                        /\ ev' = Event(s, "form_treino", "failed", target_user_id,
                                       ran \cup {Op("getWorkouts", target_user_id, user)},
                                       ScreenOf(top))
    /\ UNCHANGED <<profiles, avaliacoes, auth, deltaVars>>

\* "Salvar Avaliação": the form exists only under `if is_teacher`.  The run
\* has already listed the workouts when it reaches the form.
SubmitAval(s) ==
    /\ ~LoginGate(auth[s])
    /\ IsTeacher(auth[s][1])
    /\ BagCardinality(avaliacoes) + BagCardinality(treinos) < MaxRows
    /\ LET user == auth[s][1]
       IN  \E f \in AvalInputs, dbOk \in BOOLEAN :
           \E so \in SelectionOutcomes(user, selectbox[s].sel, profiles) :
             LET target_user_id == so.pick.target_user_id
                 row == AvalRow(target_user_id, f[1], f[2], f[3], f[4], f[5])
                 ran == DashOps(so, user)
                        \cup {Op("getWorkouts", target_user_id, user),
                              Op("insertAssessment", target_user_id, user)}
             IN  IF dbOk
                 THEN \E again \in Top(user, so.pick.sel, profiles, InsertRow(avaliacoes, row)) :
                        /\ avaliacoes' = InsertRow(avaliacoes, row)
                        /\ selectbox' = [selectbox EXCEPT ![s] = WidgetOf(again)]
                        /\ ev' = SavedEvent(s, "form_aval", row, target_user_id,
                                            ran \cup again.ops
                                            \cup {Op("getWorkouts", again.target_user_id, user)},
                                            ScreenOf(again))
                 ELSE \E top \in TopOf(so, user, avaliacoes) :
                        /\ avaliacoes' = avaliacoes
                        /\ selectbox' = [selectbox EXCEPT ![s] = WidgetOf(top)]
                        /\ ev' = Event(s, "form_aval", "failed", target_user_id, ran,
                                       ScreenOf(top))
    /\ UNCHANGED <<profiles, treinos, auth, deltaVars>>

\* Header button "Sair": handled before any query of the run; st.rerun()
\* then shows the login screen, which renders no selectbox.
LogoutHeader(s) ==
    /\ ~LoginGate(auth[s])
    /\ auth' = [auth EXCEPT ![s] = ClearAuth(auth[s])]
    /\ \E after \in IF LoginGate(auth'[s]) THEN {[w |-> NoWidget, scr |-> LoginScreen, ops |-> {}]}
                    ELSE {[w |-> WidgetOf(top), scr |-> ScreenOf(top),
                           ops |-> top.ops \cup {Op("getWorkouts", top.target_user_id, auth'[s][1])}]
                          : top \in Top(auth'[s][1], selectbox[s].sel, profiles, avaliacoes)} :
         /\ selectbox' = [selectbox EXCEPT ![s] = after.w]
         /\ ev' = Event(s, "logout_header", "ok", "", after.ops, after.scr)
    /\ UNCHANGED <<profiles, avaliacoes, treinos, deltaVars>>

\* Button "Sair (Logout)" of tab "Conta": the last statement of the script,
\* reached after the queries of the run; st.rerun() follows.
LogoutConta(s) ==
    /\ ~LoginGate(auth[s])
    /\ auth' = [auth EXCEPT ![s] = ClearAuth(auth[s])]
    /\ LET user == auth[s][1]
       IN  \E so \in SelectionOutcomes(user, selectbox[s].sel, profiles) :
           \E after \in IF LoginGate(auth'[s])
                        THEN {[w |-> NoWidget, scr |-> LoginScreen, ops |-> {}]}
                        ELSE {[w |-> WidgetOf(again), scr |-> ScreenOf(again),
                               ops |-> again.ops
                                       \cup {Op("getWorkouts", again.target_user_id, user)}]
                              : again \in Top(user, so.pick.sel, profiles, avaliacoes)} :
             /\ selectbox' = [selectbox EXCEPT ![s] = after.w]
             /\ ev' = Event(s, "logout_conta", "ok", so.pick.target_user_id,
                            DashOps(so, user)
                            \cup {Op("getWorkouts", so.pick.target_user_id, user)}
                            \cup after.ops,
                            after.scr)
    /\ UNCHANGED <<profiles, avaliacoes, treinos, deltaVars>>

Next ==
    \E s \in Sessions :
        \/ Login(s)
        \/ SelectAluno(s)
        \/ SubmitTreino(s)
        \/ SubmitAval(s)
        \/ LogoutHeader(s)
        \/ LogoutConta(s)

Spec == Init /\ [][Next]_vars

TypeOK ==
    /\ profiles \in ProfileTables
    /\ BagCardinality(avaliacoes) + BagCardinality(treinos) <= MaxRows
    /\ \A s \in Sessions : Len(auth[s]) <= 1

\* ------------------------------------------------- the cards, on their own

\* Readings of one column: NULL, zero, one-decimal values, a two-decimal value.
DeltaReadings == {None, Some(0), Some(8230), Some(8400), Some(8234)}

DeltaRows ==
    {[user_id |-> "s1", data |-> 1, peso |-> p, altura |-> None,
      percentual_gordura |-> g, percentual_massa_magra |-> m]
     : p \in DeltaReadings, g \in DeltaReadings, m \in DeltaReadings}

InitDelta ==
    /\ profiles = {ProfT, ProfS1}
    /\ avaliacoes = EmptyBag
    /\ treinos = EmptyBag
    /\ auth = [s \in Sessions |-> None]
    /\ selectbox = [s \in Sessions |-> NoWidget]
    /\ ev = NoEvent
    /\ d_last \in DeltaRows
    /\ d_prev \in {None} \cup {Some(r) : r \in DeltaRows}
    /\ d_cards = None

\* Lines 168-188 for the rows last and prev.
ComputeCards ==
    /\ IsNone(d_cards)
    /\ d_cards' = Some(Cards(d_last, d_prev))
    /\ UNCHANGED <<d_last, d_prev, appVars>>

\* A newer assessment arrives: the old `last` is the new `prev`.
NewerAssessment ==
    /\ ~IsNone(d_cards)
    /\ \E r \in DeltaRows :
         /\ d_last' = r
         /\ d_prev' = Some(d_last)
         /\ d_cards' = None
    /\ UNCHANGED appVars

NextDelta == ComputeCards \/ NewerAssessment

SpecDelta == InitDelta /\ [][NextDelta]_vars

\* ------------------------------------------------------------------ claims

LoggedIn(s) == ~IsNone(auth[s])
User(s) == auth[s][1]
StudentIds == {r.user_id : r \in {q \in profiles : q.role = "student"}}
DataOps == {"listStudents", "getAssessments", "getWorkouts", "insertWorkout", "insertAssessment"}

\* C1: every read and write of a caller whose role is not teacher has the
\* caller's own user_id as target, no such caller runs the student listing,
\* and every operation is issued in the name of the logged-in user.
C1_TargetIsCaller ==
    /\ \A op \in ev.ops :
         /\ op.op \in DataOps
         /\ op.role # "teacher" => op.op # "listStudents" /\ op.uid = op.caller
         /\ LoggedIn(ev.s) => op.caller = User(ev.s).user_id /\ op.role = User(ev.s).role
    /\ (LoggedIn(ev.s) /\ User(ev.s).role # "teacher" /\ ev.screen.screen = "main")
          => ev.screen.target_user_id = User(ev.s).user_id /\ ev.target = User(ev.s).user_id

\* A student has read and written, and a profile row of another student exists.
C1_Witness ==
    /\ LoggedIn(ev.s) /\ User(ev.s).role = "student"
    /\ \E op \in ev.ops : op.op = "insertWorkout"
    /\ \E op \in ev.ops : op.op = "getAssessments"
    /\ StudentIds \ {User(ev.s).user_id} # {}

\* C2: a row enters avaliacoes only through the assessment form of a session
\* whose role is teacher; a workout inserted by a student is the student's own.
C2_OnlyTeacherAssesses ==
    [][ /\ avaliacoes' # avaliacoes =>
              /\ ev'.kind = "form_aval"
              /\ LoggedIn(ev'.s) /\ User(ev'.s).role = "teacher"
        /\ (treinos' # treinos /\ LoggedIn(ev'.s) /\ User(ev'.s).role = "student") =>
              \A r \in BagToSet(treinos') :
                 CopiesIn(r, treinos') > CopiesIn(r, treinos)
                    => r.user_id = User(ev'.s).user_id ]_vars

\* A student has just saved a workout of its own while an assessment written
\* by the form is in the store.
C2_Witness ==
    /\ ev.kind = "form_treino" /\ ev.result = "ok"
    /\ LoggedIn(ev.s) /\ User(ev.s).role = "student"
    /\ ~IsNone(ev.row) /\ BagIn(ev.row[1], treinos)
    /\ ev.row[1].user_id = User(ev.s).user_id
    /\ \E r \in BagToSet(avaliacoes) : r # NullRow

AuthKeys == {"token", "user_id", "email", "role", "nome"}

\* C3: after a login attempt that was rejected, failed in transport or timed
\* out the auth slot is empty, and a non-empty slot holds the five fields of
\* one identity.
C3_AuthAtomic ==
    /\ (ev.kind = "login" /\ ev.result \in {"rejected", "transport", "timeout"})
          => ~LoggedIn(ev.s)
    /\ \A s \in Sessions : LoggedIn(s) =>
          /\ DOMAIN User(s) = AuthKeys
          /\ User(s).user_id \in Identities
          /\ User(s).token = TokenOf[User(s).user_id]
          /\ User(s).email = EmailOf[User(s).user_id]
          /\ User(s).role \in {"teacher", "student"}
          /\ User(s).nome # ""

\* A login timed out after someone had worked in the session.
C3_Witness ==
    /\ ev.kind = "login" /\ ev.result = "timeout"
    /\ ~LoggedIn(ev.s)
    /\ BagCardinality(treinos) > 0

CardCols == {<<"peso", "peso">>, <<"gordura", "percentual_gordura">>,
             <<"massa_magra", "percentual_massa_magra">>}

\* t (in tenths) is x (in hundredths) rounded to one decimal place.
IsRounded(x, t) == 10 * t - x \in -5..5

\* C4: for each of the three metrics, the delta is absent when there is no
\* previous row or its value is NULL, and otherwise denotes current - previous
\* rounded to one decimal place (exactly the difference for one-decimal values).
C4_DeltaRounded ==
    ~IsNone(d_cards) =>
        \A kc \in CardCols :
            LET card == d_cards[1][kc[1]]
                col == kc[2]
                noPrev == IsNone(d_prev) \/ IsNone(d_prev[1][col])
            IN  /\ noPrev <=> IsNone(card.delta)
                /\ (~noPrev /\ ~IsNone(d_last[col])) =>
                      LET x == d_last[col][1] - d_prev[1][col][1]
                      IN  /\ IsRounded(x, ValueOf(card.delta[1]))
                          /\ x % 10 = 0 => 10 * ValueOf(card.delta[1]) = x

\* 82.3 after 84.0 shows -1.7 for the weight, while body fat, whose previous
\* value is 0.0, shows a delta and lean mass, whose previous value is NULL, none.
C4_Witness ==
    /\ ~IsNone(d_cards)
    /\ d_last.peso = Some(8230) /\ ~IsNone(d_prev) /\ d_prev[1].peso = Some(8400)
    /\ d_cards[1].peso.delta = Some([neg |-> TRUE, tenths |-> 17])
    /\ d_prev[1].percentual_gordura = Some(0) /\ ~IsNone(d_cards[1].gordura.delta)
    /\ IsNone(d_prev[1].percentual_massa_magra) /\ IsNone(d_cards[1].massa_magra.delta)

ProfileRows(u) == {r \in profiles : r.user_id = u}

\* C5 as stated: a logged-in identity without a profile row is the student
\* "Aluno", and one with a row has the role and name of its row.
C5_RowAlwaysReturned ==
    \A s \in Sessions : LoggedIn(s) =>
        IF ProfileRows(User(s).user_id) = {}
        THEN User(s).role = "student" /\ User(s).nome = "Aluno"
        ELSE \E r \in ProfileRows(User(s).user_id) :
                User(s).role = r.role /\ User(s).nome = r.nome

\* C5 amended: a successful login always yields a role in {teacher, student};
\* the identity has the role and name of its profile row when the row exists
\* and the profile request went through, and is the student "Aluno" when
\* there is no row or the profile request failed.
C5_ProfileOrDefault ==
    (ev.kind = "login" /\ ev.result = "ok" /\ LoggedIn(ev.s)) =>
        /\ User(ev.s).role \in {"teacher", "student"}
        /\ IF ev.reqOk /\ ProfileRows(User(ev.s).user_id) # {}
           THEN \E r \in ProfileRows(User(ev.s).user_id) :
                   User(ev.s).role = r.role /\ User(ev.s).nome = r.nome
           ELSE User(ev.s).role = "student" /\ User(ev.s).nome = "Aluno"

\* s2, which has no profile row, is logged in as the student "Aluno".
C5_Witness ==
    /\ ev.kind = "login" /\ ev.result = "ok" /\ ev.reqOk
    /\ LoggedIn(ev.s) /\ User(ev.s).user_id = "s2"
    /\ ProfileRows("s2") = {}
    /\ User(ev.s).role = "student" /\ User(ev.s).nome = "Aluno"

\* The row the assessment form has just written, and the rows the target had before.
Inserted == ev.row[1]
Earlier == RowsOf(avaliacoes (-) SetToBag({Inserted}), ev.target)

\* The assessment form has saved a row and the screen lists the same target.
SavedAndListed ==
    /\ ev.kind = "form_aval" /\ ev.result = "ok"
    /\ ev.screen.dash # "error"
    /\ ev.screen.target_user_id = ev.target

\* C6 as stated: after the insert the listing of that user is in descending
\* date order and its first element is the inserted record, whatever its date.
C6_FirstIsInserted ==
    SavedAndListed =>
        /\ IsDateDesc(ev.screen.df_av)
        /\ ev.screen.df_av[1] = Inserted

\* C6 amended: after the insert the listing of that user is in descending date
\* order and contains the inserted record; the inserted record is the first
\* element, and the current reading of the cards, whenever its date is later
\* than the date of every record the user already had.
C6_InsertedListed ==
    SavedAndListed =>
        /\ IsDateDesc(ev.screen.df_av)
        /\ Inserted.user_id = ev.target
        /\ BagIn(Inserted, avaliacoes)
        /\ Inserted \in Range(ev.screen.df_av)
        /\ Len(ev.screen.df_av) = BagCardinality(Earlier) + 1
        /\ (\A r \in BagToSet(Earlier) : r.data < Inserted.data) =>
              /\ ev.screen.df_av[1] = Inserted
              /\ ev.screen.cards.peso.value = Inserted.peso[1]

\* The inserted record is newer than the record the user already had and
\* heads a listing of two.
C6_Witness ==
    /\ SavedAndListed
    /\ BagCardinality(Earlier) = 1
    /\ \A r \in BagToSet(Earlier) : r.data < Inserted.data
    /\ Len(ev.screen.df_av) = 2 /\ ev.screen.df_av[1] = Inserted

\* The listing l holds exactly the rows of the bag.
SameRows(l, rows) ==
    /\ Len(l) = BagCardinality(rows)
    /\ \A r \in Range(l) \cup BagToSet(rows) : Count(l, r) = CopiesIn(r, rows)

\* C7: a dashboard whose query succeeded shows "no assessments" for a target
\* without records; with one record it shows the three values without delta;
\* with more, the rows in descending date order, whose first and second are
\* the current and previous reading of every card.
C7_DashBoundaries ==
    (ev.screen.screen = "main" /\ ev.screen.dash # "error") =>
        LET rows == RowsOf(avaliacoes, ev.screen.target_user_id)
            n == BagCardinality(rows)
            df_av == ev.screen.df_av
            cards == ev.screen.cards
        IN  /\ n = 0 <=> ev.screen.dash = "empty"
            /\ n > 0 <=> ev.screen.dash = "metrics"
            /\ SameRows(df_av, rows) /\ IsDateDesc(df_av)
            /\ n = 1 =>
                  \A kc \in CardCols :
                     /\ IsNone(cards[kc[1]].delta)
                     /\ cards[kc[1]].value = CurrentOf(df_av[1], kc[2])
            /\ n > 1 =>
                  \A kc \in CardCols :
                     /\ cards[kc[1]].value = CurrentOf(df_av[1], kc[2])
                     /\ cards[kc[1]].delta =
                          safe_delta(CurrentOf(df_av[1], kc[2]), df_av[2][kc[2]])

\* The target has exactly one record, written by the form, and it is shown.
C7_Witness ==
    /\ ev.screen.screen = "main" /\ ev.screen.dash = "metrics"
    /\ Len(ev.screen.df_av) = 1 /\ ev.screen.df_av[1] # NullRow
    /\ IsNone(ev.screen.cards.peso.delta)

\* table b is table a with one more copy of a row of user uid.
OneMore(a, b, uid) ==
    \E r \in BagToSet(b) : r.user_id = uid /\ b = a (+) SetToBag({r})
Forms == {"form_treino", "form_aval"}

C9_AllStudentsSelectable ==
    \A s \in Sessions :
        (LoggedIn(s) /\ User(s).role = "teacher" /\ ~IsNone(selectbox[s].opts)) =>
            LET o == selectbox[s].opts[1]
            IN  /\ \A u \in StudentIds : \E label \in DOMAIN o : o[label] = u
                /\ \A label \in DOMAIN o : o[label] \in StudentIds

Logouts == {"logout_header", "logout_conta"}

\* C10: data operations are run only by a session whose auth slot is set;
\* each logout button empties the slot; a session whose slot is empty runs
\* no data operation until a login succeeds, and that login starts with the
\* user's own id as target.
C10_SessionGate ==
    [][ /\ ev'.kind \in Logouts => IsNone(auth'[ev'.s])
        /\ ev'.ops # {} => LoggedIn(ev'.s) \/ ~IsNone(auth'[ev'.s])
        /\ \A s \in Sessions :
             /\ (~LoggedIn(s) /\ ~LoggedIn(s)') => (ev'.s = s => ev'.ops = {})
             /\ (~LoggedIn(s) /\ LoggedIn(s)') =>
                   /\ ev'.kind = "login" /\ ev'.result = "ok" /\ ev'.s = s
                   /\ ev'.target = User(s)'.user_id
                   /\ ev'.screen.target_user_id = User(s)'.user_id
                   /\ selectbox'[s].sel = Self ]_vars

\* A teacher has logged in after an earlier login left a workout in the store.
C10_Witness ==
    /\ ev.kind = "login" /\ ev.result = "ok"
    /\ LoggedIn(ev.s) /\ User(ev.s).role = "teacher"
    /\ ev.target = "t1"
    /\ BagCardinality(treinos) > 0

====
